---------------------------- MODULE Spec2Model ----------------------------
(***************************************************************************)
(* Verification model of the curve420 / ed420 library: the prime field,    *)
(* the twisted Edwards group, the prime-order wrapper with its byte codec  *)
(* and the plain, blind and partially-blind Schnorr protocols.             *)
(*                                                                         *)
(* The arithmetic is translated operation by operation from the source.    *)
(* The 420-bit curve does not fit a model checker, so the curve constants  *)
(* are instantiated with a small curve of the same shape:                  *)
(*   p = 113 (p = 1 mod 16, so p - 1 = q * 2^4 as for 2^420 - 335; 2 is a  *)
(*   residue and 3 the first non-residue, as for the real p),              *)
(*   Montgomery A = 74, a = A + 2 = 76 (a non-residue, as in the source),  *)
(*   d = A - 2 = 72 (a residue, as in the source), group order 8 * 13,     *)
(*   cofactor h = 8, prime subgroup order L = 13 (L does not divide p - 1, *)
(*   as in the source), base point G = (5, 44) of order L.                 *)
(* The 53-byte encoding becomes a 2-byte encoding (x little-endian, sign   *)
(* of y in the top bit of the last byte).                                  *)
(***************************************************************************)
EXTENDS Integers, Sequences, FiniteSets, TLC

\* ------------------------------------------------------------------ field
P == 113
L == 13
H == 8
MONT_A == 74
EDW_A_VAL == 76
EDW_D_VAL == 72
G_X == 5
G_Y == 44
D_M1 == 5
SQRT_M1 == 15
ENCODING_LEN == 2
G_MONT == 41

\* BigUint::modpow(e, m): square and multiply on the bits of e.
RECURSIVE modpow(_, _, _)
modpow(b, e, m) ==
    IF e = 0 THEN 1 % m
    ELSE LET h == modpow(b, e \div 2, m)
             sq == (h * h) % m
         IN  IF e % 2 = 1 THEN (sq * (b % m)) % m ELSE sq

\* FieldElement::new
fe_new(n) == n % P

\* sub_mod(a, b, p)
sub_mod(a, b, p) == IF a >= b THEN a - b ELSE a + p - b

\* impl Neg for FieldElement: sub_mod(P, x, P)
fe_neg(x) == sub_mod(P, x, P)

fe_add(x, y) == (x + y) % P

fe_sub(x, y) == sub_mod(x, y, P)

fe_mul(x, y) == (x * y) % P

\* FieldElement::inv: x^(p-2) mod p (0 for x = 0)
fe_inv(x) == modpow(x, P - 2, P)

fe_is_zero(x) == x = 0

fe_is_one(x) == x = 1

\* FieldElement::parity: bit 0 of the stored integer
fe_parity(x) == x % 2

fe_pow_big(x, e) == modpow(x, e, P)

\* FieldElement::legendre
fe_legendre(x) ==
    IF fe_is_zero(x) THEN 0
    ELSE LET r == modpow(x, (P - 1) \div 2, P)
         IN  IF r = 0 THEN 0 ELSE IF r = 1 THEN 1 ELSE -1

\* FieldElement::from_hex: the integer parsed, as it is
fe_from_hex(n) == n

\* FieldElement::zero
fe_zero == 0

\* FieldElement::one
fe_one == 1

\* Option<FieldElement>
SomeFe(v) == [tag |-> "Some", v |-> v]
NoneFe == [tag |-> "None", v |-> 0]
PanicFe == [tag |-> "Panic", v |-> 0]

\* sqrt: factor p - 1 = q * 2^s with q odd
RECURSIVE sqrt_factor(_, _)
sqrt_factor(q, s) ==
    IF q % 2 = 0 THEN sqrt_factor(q \div 2, s + 1) ELSE [q |-> q, s |-> s]

\* mutant of sqrt_nonresidue: z_val is taken without the Legendre test
sqrt_nonresidue_untested(z_val) == fe_new(z_val)

\* sqrt: the first quadratic non-residue from z_val on
RECURSIVE sqrt_nonresidue(_)
sqrt_nonresidue(z_val) ==
    IF fe_legendre(fe_new(z_val)) = -1 THEN fe_new(z_val) ELSE sqrt_nonresidue(z_val + 1)

\* sqrt: the least i in [1, m) with t^(2^i) = 1, or m when the scan runs out
RECURSIVE sqrt_find_i(_, _, _)
sqrt_find_i(i, t2i, m) ==
    IF i < m
    THEN LET sq == fe_mul(t2i, t2i)
         IN  IF fe_is_one(sq) THEN i ELSE sqrt_find_i(i + 1, sq, m)
    ELSE i

\* sqrt: b squared e times
RECURSIVE sqrt_square_times(_, _)
sqrt_square_times(b, e) == IF e > 0 THEN sqrt_square_times(fe_mul(b, b), e - 1) ELSE b

\* sqrt: the main loop; m - i - 1 is a u32 subtraction
RECURSIVE sqrt_loop(_, _, _, _)
sqrt_loop(r, t_cur, c_cur, m) ==
    IF fe_is_one(t_cur) THEN SomeFe(r)
    ELSE LET i == sqrt_find_i(1, t_cur, m)
             e == m - i - 1
         IN  IF e < 0 THEN PanicFe
             ELSE LET b == sqrt_square_times(c_cur, e)
                      b2 == fe_mul(b, b)
                  IN  sqrt_loop(fe_mul(r, b), fe_mul(t_cur, b2), b2, i)

\* FieldElement::sqrt (Tonelli-Shanks)
fe_sqrt(x) ==
    IF fe_is_zero(x) THEN SomeFe(0)
    ELSE IF fe_legendre(x) # 1 THEN NoneFe
    ELSE LET f == sqrt_factor(P - 1, 0)
             z == sqrt_nonresidue(2)
             c == fe_pow_big(z, f.q)
             t == fe_pow_big(x, f.q)
             r == fe_pow_big(x, (f.q + 1) \div 2)
         IN  sqrt_loop(r, t, c, f.s)

\* BigUint::to_bytes_le: minimal little-endian bytes, one zero byte for 0
RECURSIVE to_bytes_le(_)
to_bytes_le(n) == IF n < 256 THEN <<n>> ELSE <<n % 256>> \o to_bytes_le(n \div 256)

\* BigUint::from_bytes_le
RECURSIVE from_bytes_le(_)
from_bytes_le(bytes) ==
    IF bytes = <<>> THEN 0 ELSE Head(bytes) + 256 * from_bytes_le(Tail(bytes))

\* Vec::resize(len, 0)
resize(b, len) ==
    IF Len(b) >= len THEN SubSeq(b, 1, len)
    ELSE b \o [i \in 1..(len - Len(b)) |-> 0]

\* FieldElement::to_le_bytes_len
fe_to_le_bytes_len(x, len) == resize(to_bytes_le(x), len)

\* FieldElement::from_le_bytes_canonical
fe_from_le_bytes_canonical(bytes) ==
    LET n == from_bytes_le(bytes) IN IF n < P THEN SomeFe(n) ELSE NoneFe

\* ------------------------------------------------------------ Edwards group
Infinity == [tag |-> "Infinity", x |-> 0, y |-> 0]

Affine(px, py) == [tag |-> "Affine", x |-> px, y |-> py]

G == Affine(G_X, G_Y)

\* EdwardsPoint::coords
coords(p) == IF p.tag = "Affine" THEN <<p.x, p.y>> ELSE <<0, 1>>

\* mutant of point_add: the numerator of y3 leaves out the coefficient a
point_add_without_a(p1, p2) ==
    IF p1.tag = "Infinity" THEN p2
    ELSE IF p2.tag = "Infinity" THEN p1
    ELSE LET x1x2 == fe_mul(p1.x, p2.x)
             y1y2 == fe_mul(p1.y, p2.y)
             dxxyy == fe_mul(fe_mul(EDW_D_VAL, x1x2), y1y2)
             x3 == fe_mul(fe_add(fe_mul(p1.x, p2.y), fe_mul(p1.y, p2.x)),
                          fe_inv(fe_add(1, dxxyy)))
             y3 == fe_mul(fe_sub(y1y2, x1x2), fe_inv(fe_sub(1, dxxyy)))
         IN  Affine(x3, y3)

\* point_add
point_add(p1, p2) ==
    IF p1.tag = "Infinity" THEN p2
    ELSE IF p2.tag = "Infinity" THEN p1
    ELSE LET x1y2 == fe_mul(p1.x, p2.y)
             y1x2 == fe_mul(p1.y, p2.x)
             x1x2 == fe_mul(p1.x, p2.x)
             y1y2 == fe_mul(p1.y, p2.y)
             dxxyy == fe_mul(fe_mul(EDW_D_VAL, x1x2), y1y2)
             x3_num == fe_add(x1y2, y1x2)
             x3_den == fe_add(1, dxxyy)
             x3 == fe_mul(x3_num, fe_inv(x3_den))
             y3_num == fe_sub(y1y2, fe_mul(EDW_A_VAL, x1x2))
             y3_den == fe_sub(1, dxxyy)
             y3 == fe_mul(y3_num, fe_inv(y3_den))
         IN  Affine(x3, y3)

\* mutant of point_double: the point is returned undoubled
point_double_undoubled(p) == p

\* point_double
point_double(p) == IF p.tag = "Affine" THEN point_add(p, p) ELSE Infinity

\* impl Neg for EdwardsPoint
point_neg(p) == IF p.tag = "Infinity" THEN Infinity ELSE Affine(fe_neg(p.x), p.y)

\* impl Sub for EdwardsPoint
point_sub(p1, p2) == point_add(p1, point_neg(p2))

\* impl Mul<BigUint> for EdwardsPoint: double-and-add, least significant bit first
RECURSIVE mul_loop(_, _, _)
mul_loop(res, temp, s) ==
    IF s = 0 THEN res
    ELSE mul_loop(IF s % 2 = 1 THEN point_add(res, temp) ELSE res,
                  point_double(temp), s \div 2)

\* point_add: x3_den or y3_den of this addition is zero
add_zero_den(p1, p2) ==
    /\ p1.tag = "Affine"
    /\ p2.tag = "Affine"
    /\ LET dxxyy == fe_mul(fe_mul(EDW_D_VAL, fe_mul(p1.x, p2.x)), fe_mul(p1.y, p2.y))
       IN  fe_is_zero(fe_add(1, dxxyy)) \/ fe_is_zero(fe_sub(1, dxxyy))

\* impl Mul<BigUint> for EdwardsPoint: some addition or doubling of the loop has a
\* zero denominator
RECURSIVE mul_zero_den(_, _, _)
mul_zero_den(res, temp, s) ==
    IF s = 0 THEN FALSE
    ELSE \/ s % 2 = 1 /\ add_zero_den(res, temp)
         \/ add_zero_den(temp, temp)
         \/ mul_zero_den(IF s % 2 = 1 THEN point_add(res, temp) ELSE res,
                         point_double(temp), s \div 2)

\* the points the library computes from G (all multiples of G, their negations,
\* every representation of the neutral element among them) and the scalars up to
\* 2L: scalar multiplication on these is evaluated once and looked up afterwards
MulCacheScalars == 0..(2 * L)

MulCachePoints ==
    LET m == {mul_loop(Infinity, G, k) : k \in 0..L}
    IN  m \cup {point_neg(q) : q \in m}

MulCache == [q \in MulCachePoints, k \in MulCacheScalars |-> mul_loop(Infinity, q, k)]

point_mul(p, scalar) ==
    IF p \in MulCachePoints /\ scalar \in MulCacheScalars
    THEN MulCache[p, scalar]
    ELSE mul_loop(Infinity, p, scalar)

\* ------------------------------------------------------ prime-order wrapper
RistrettoPoint(p) == [inner |-> p]

\* Option<RistrettoPoint>
SomeRp(rp) == [tag |-> "Some", v |-> rp]
NoneRp == [tag |-> "None", v |-> RistrettoPoint(Infinity)]

\* Result<RistrettoPoint, RistrettoError>
OkRp(rp) == [tag |-> "Ok", v |-> rp, err |-> "none"]
ErrRp(e) == [tag |-> "Err", v |-> RistrettoPoint(Infinity), err |-> e]
PanicRp == [tag |-> "Panic", v |-> RistrettoPoint(Infinity), err |-> "none"]

\* from_edwards_checked::is_identity_point
is_identity_point(q) ==
    IF q.tag = "Infinity" THEN TRUE ELSE fe_is_zero(q.x) /\ fe_is_one(q.y)

\* RistrettoPoint::from_edwards_checked
from_edwards_checked(p) ==
    LET l_p == point_mul(p, L)
        is_identity == is_identity_point(l_p)
        p_is_identity == is_identity_point(p)
    IN  IF is_identity /\ ~p_is_identity THEN SomeRp(RistrettoPoint(p)) ELSE NoneRp

\* RistrettoPoint::add
rp_add(a, b) == RistrettoPoint(point_add(a.inner, b.inner))

\* RistrettoPoint::neg
rp_neg(a) == RistrettoPoint(point_neg(a.inner))

\* RistrettoPoint::mul
rp_mul(a, k) == RistrettoPoint(point_mul(a.inner, k))

\* impl From<&EdwardsPoint> for RistrettoPoint
rp_from(p) == RistrettoPoint(p)

\* mutant of encode: the sign of y is not written
rp_encode_without_sign(a) ==
    fe_to_le_bytes_len(coords(a.inner)[1], ENCODING_LEN)

\* RistrettoPoint::encode
rp_encode(a) ==
    LET c == coords(a.inner)
        xb == fe_to_le_bytes_len(c[1], ENCODING_LEN)
    IN  [xb EXCEPT ![ENCODING_LEN] = (@ % 128) + (fe_parity(c[2]) % 2) * 128]

\* sqrt_ratio
sqrt_ratio(u, v) ==
    LET x == fe_mul(u, fe_inv(v))
        r == fe_sqrt(x)
    IN  IF r.tag # "None" THEN r
        ELSE LET minus_one == fe_sub(0, 1)
                 r2 == fe_sqrt(fe_mul(x, minus_one))
             IN  IF r2.tag = "Some" THEN SomeFe(fe_mul(SQRT_M1, r2.v)) ELSE r2

\* ct_select_fe
ct_select_fe(a, b, choice) == IF choice = 0 THEN a ELSE b

\* is_negative
is_negative(x) == fe_parity(x)

\* decode, first path: x with the sign of y in the top bit of the last byte
decode_edwards_style(bytes) ==
    LET sign == (bytes[ENCODING_LEN] \div 128) % 2
        xb == [bytes EXCEPT ![ENCODING_LEN] = @ % 128]
        xo == fe_from_le_bytes_canonical(xb)
    IN  IF xo.tag # "Some" THEN NoneRp
        ELSE LET x == xo.v
                 x2 == fe_mul(x, x)
                 num == fe_sub(1, fe_mul(EDW_A_VAL, x2))
                 den == fe_sub(1, fe_mul(EDW_D_VAL, x2))
             IN  IF fe_is_zero(den) THEN NoneRp
                 ELSE LET y2 == fe_mul(num, fe_inv(den))
                          yo == fe_sqrt(y2)
                      IN  IF yo.tag = "Panic" THEN [NoneRp EXCEPT !.tag = "Panic"]
                          ELSE IF yo.tag # "Some" THEN NoneRp
                          ELSE LET y == IF fe_parity(yo.v) # sign THEN fe_neg(yo.v)
                                        ELSE yo.v
                               IN  from_edwards_checked(Affine(x, y))

\* decode, second path: the a = -1 Ristretto-style mapping from t
decode_ristretto_style(bytes) ==
    LET t == fe_from_le_bytes_canonical(bytes)
    IN  IF t.tag # "Some" THEN ErrRp("InvalidEncoding")
        ELSE LET r == t.v
                 r2 == fe_mul(r, r)
                 u1 == fe_sub(1, r2)
                 u2 == fe_add(1, r2)
                 r4 == fe_mul(r2, r2)
                 v == fe_sub(1, fe_mul(D_M1, r4))
                 u2_sq == fe_mul(u2, u2)
                 denom == fe_mul(v, u2_sq)
                 invsqrt == sqrt_ratio(1, denom)
             IN  IF invsqrt.tag = "None" THEN ErrRp("InvalidEncoding")
                 ELSE IF invsqrt.tag = "Panic" THEN PanicRp
                 ELSE LET den1 == fe_mul(invsqrt.v, u2)
                          den2 == fe_mul(den1, v)
                          x0 == fe_mul(fe_add(r, r), den1)
                          y0 == fe_mul(u1, den2)
                          neg_xy == is_negative(fe_mul(x0, y0))
                          x1 == ct_select_fe(x0, fe_mul(y0, SQRT_M1), neg_xy)
                          y1 == ct_select_fe(y0, fe_mul(x0, SQRT_M1), neg_xy)
                          flip == is_negative(y1) = 1
                          x == IF flip THEN fe_neg(x1) ELSE x1
                          y == IF flip THEN fe_neg(y1) ELSE y1
                          rp == from_edwards_checked(Affine(x, y))
                      IN  IF rp.tag = "Some" THEN OkRp(rp.v) ELSE ErrRp("NotImplemented")

\* RistrettoPoint::decode
rp_decode(bytes) ==
    LET first == decode_edwards_style(bytes)
    IN  IF first.tag = "Some" THEN OkRp(first.v)
        ELSE IF first.tag = "Panic" THEN PanicRp
        ELSE decode_ristretto_style(bytes)

\* ------------------------------------------------------------ Montgomery ladder
\* struct ProjPoint
ProjPoint(x, z) == [x |-> x, z |-> z]

\* ProjPoint::to_montgomery
to_montgomery(pp) ==
    IF fe_is_zero(pp.z) THEN 0 ELSE fe_mul(pp.x, fe_inv(pp.z))

\* mutant of cswap: the points are never exchanged
cswap_never(p1, p2, b) == <<p1, p2>>

\* cswap: the pair after the conditional exchange
cswap(p1, p2, b) == IF b THEN <<p2, p1>> ELSE <<p1, p2>>

\* mutant of ladder_step: the differential addition leaves out the base point
ladder_step_without_base(p0, p1, base_x) ==
    LET v0 == fe_add(p0.x, p0.z)
        v1 == fe_sub(p0.x, p0.z)
        v2 == fe_add(p1.x, p1.z)
        v3 == fe_sub(p1.x, p1.z)
        v4 == fe_mul(v0, v3)
        v5 == fe_mul(v1, v2)
        v0_ == fe_add(v4, v5)
        v1_ == fe_sub(v4, v5)
        x0_sq == fe_mul(p0.x, p0.x)
        z0_sq == fe_mul(p0.z, p0.z)
        dsq == fe_sub(x0_sq, z0_sq)
        four_x0_z0 == fe_sub(fe_mul(v0, v0), fe_mul(v1, v1))
        t == fe_add(fe_add(x0_sq, fe_mul(fe_mul(MONT_A, p0.x), p0.z)), z0_sq)
    IN  <<ProjPoint(fe_mul(dsq, dsq), fe_mul(four_x0_z0, t)),
          ProjPoint(fe_mul(v0_, v0_), fe_mul(v1_, v1_))>>

\* ladder_step: <<2*p0, p0 + p1>>
ladder_step(p0, p1, base_x) ==
    LET x0 == p0.x
        z0 == p0.z
        x1 == p1.x
        z1 == p1.z
        v0 == fe_add(x0, z0)
        v1 == fe_sub(x0, z0)
        v2 == fe_add(x1, z1)
        v3 == fe_sub(x1, z1)
        v4 == fe_mul(v0, v3)
        v5 == fe_mul(v1, v2)
        v0_ == fe_add(v4, v5)
        v1_ == fe_sub(v4, v5)
        x_added == fe_mul(v0_, v0_)
        z_added == fe_mul(fe_mul(base_x, v1_), v1_)
        x0_sq == fe_mul(x0, x0)
        z0_sq == fe_mul(z0, z0)
        x_doubled == fe_mul(fe_sub(x0_sq, z0_sq), fe_sub(x0_sq, z0_sq))
        four_x0_z0 == fe_sub(fe_mul(v0, v0), fe_mul(v1, v1))
        t == fe_add(fe_add(x0_sq, fe_mul(fe_mul(MONT_A, x0), z0)), z0_sq)
        z_doubled == fe_mul(four_x0_z0, t)
    IN  <<ProjPoint(x_doubled, z_doubled), ProjPoint(x_added, z_added)>>

\* back to Montgomery: u = (1 + y) / (1 - y)
edwards_to_montgomery_u(p) ==
    LET y == coords(p)[2]
    IN  fe_mul(fe_add(1, y), fe_inv(fe_sub(1, y)))

\* BigUint::bits: the bit length, 0 for 0
RECURSIVE bits(_)
bits(k) == IF k = 0 THEN 0 ELSE 1 + bits(k \div 2)

\* mutant of bit_at: the bits are read from the least significant one up
bit_at_low_first(k, i) == (k \div (2 ^ (bits(k) - 1 - i))) % 2 = 1

\* (k >> i) & 1 == 1
bit_at(k, i) == (k \div (2 ^ i)) % 2 = 1

\* montgomery_ladder: one iteration of the loop, for bit i
ladder_iteration(p0, p1, base_x, k, i) ==
    LET bit == bit_at(k, i)
        sw == cswap(p0, p1, bit)
        st == ladder_step(sw[1], sw[2], base_x)
    IN  cswap(st[1], st[2], bit)

\* montgomery_ladder: the loop, for i in (0..n).rev()
RECURSIVE ladder_loop(_, _, _, _, _)
ladder_loop(p0, p1, base_x, k, n) ==
    IF n = 0 THEN <<p0, p1>>
    ELSE LET nx == ladder_iteration(p0, p1, base_x, k, n - 1)
         IN  ladder_loop(nx[1], nx[2], base_x, k, n - 1)

\* montgomery_ladder
montgomery_ladder(u, k) ==
    LET fin == ladder_loop(ProjPoint(1, 0), ProjPoint(u, 1), u, k, bits(k))
    IN  to_montgomery(fin[1])

\* ------------------------------------------------------------------ scalars
\* mod_l
mod_l(x) == x % L

\* add_mod_l
add_mod_l(a, b) == mod_l(a + b)

\* sub_mod_l
sub_mod_l(a, b) == IF a >= b THEN a - b ELSE L + a - b

\* rng.gen_biguint_below(&L) redrawn while zero: the values a nonce or key can take
NonZeroScalars == 1..(L - 1)

\* ------------------------------------------------------------------ hashing
\* BigUint::to_bytes_be: minimal big-endian bytes, one zero byte for 0
RECURSIVE to_bytes_be(_)
to_bytes_be(n) == IF n < 256 THEN <<n>> ELSE to_bytes_be(n \div 256) \o <<n % 256>>

\* b"ed420-schnorr-v1"
TAG_SCHNORR == <<101, 100, 52, 50, 48, 45, 115, 99, 104, 110, 111, 114, 114, 45, 118, 49>>

\* b"ed420-partially-blind-schnorr-v1"
TAG_PARTIAL == <<101, 100, 52, 50, 48, 45, 112, 97, 114, 116, 105, 97, 108, 108, 121, 45, 98, 108, 105, 110, 100, 45, 115, 99, 104, 110, 111, 114, 114, 45, 118, 49>>

\* the bytes the loop over the points feeds to the digest
RECURSIVE points_bytes(_)
points_bytes(points) ==
    IF points = <<>> THEN <<>>
    ELSE LET c == coords(Head(points))
         IN  to_bytes_be(c[1]) \o to_bytes_be(c[2]) \o points_bytes(Tail(points))

\* mutant of hash_input: the message is left out of the bytes hashed
hash_input_without_msg(points, m) == TAG_SCHNORR \o points_bytes(points)

\* the byte string hash_points_and_message feeds to SHA-512
hash_input(points, m) == TAG_SCHNORR \o points_bytes(points) \o m

\* the byte string hash_points_message_and_info feeds to SHA-512
hash_input_info(points, m, info) == TAG_PARTIAL \o points_bytes(points) \o m \o info

\* SHA-512 is an external collaborator: dg is the digest as a function from the
\* byte strings a run hashes to the integer BigUint::from_bytes_be reads from it.
hash_points_and_message(points, m, dg) == mod_l(dg[hash_input(points, m)])

hash_points_message_and_info(points, m, info, dg) ==
    mod_l(dg[hash_input_info(points, m, info)])

\* the digest with its value on the byte string inp fixed to h (an earlier hash
\* of the same bytes has fixed it already)
Hashed(dg, inp, h) == IF inp \in DOMAIN dg THEN dg ELSE (inp :> h) @@ dg

\* the values the digest of inp can take: the one fixed already, or any
HashOutcomes(dg, inp, all) == IF inp \in DOMAIN dg THEN {dg[inp]} ELSE all

\* ------------------------------------------------------------ plain Schnorr
Signature(r, s) == [r |-> r, s |-> s]

\* keygen: pk for a drawn sk
keygen_pk(k) == point_mul(G, k)

\* sign, with k the nonce drawn and dg the digest
sign(secret, public, m, k, dg) ==
    LET r == point_mul(G, k)
        e == hash_points_and_message(<<r, public>>, m, dg)
        s == add_mod_l(k, e * secret)
    IN  Signature(r, s)

\* mutant of verify: the range check lets s = L through
verify_accepting_L(public, m, sg, dg) ==
    IF sg.s = 0 \/ sg.s > L THEN FALSE
    ELSE LET e == hash_points_and_message(<<sg.r, public>>, m, dg)
             s_g == point_mul(G, sg.s)
             r_plus_e_pk == point_add(sg.r, point_mul(public, e))
         IN  s_g = r_plus_e_pk

\* verify
verify(public, m, sg, dg) ==
    IF sg.s = 0 \/ sg.s >= L THEN FALSE
    ELSE LET e == hash_points_and_message(<<sg.r, public>>, m, dg)
             s_g == point_mul(G, sg.s)
             r_plus_e_pk == point_add(sg.r, point_mul(public, e))
         IN  s_g = r_plus_e_pk

PartiallyBlindSignature(r, s, info) == [r |-> r, s |-> s, info |-> info]

\* verify_partially_blind_signature
verify_partially_blind_signature(public, m, sg, dg) ==
    IF sg.s = 0 \/ sg.s >= L THEN FALSE
    ELSE LET e == hash_points_message_and_info(<<sg.r, public>>, m, sg.info, dg)
             s_g == point_mul(G, sg.s)
             r_plus_e_pk == point_add(sg.r, point_mul(public, e))
         IN  s_g = r_plus_e_pk

\* ------------------------------------------------------------ blind Schnorr
\* BlindSignatureSigner::new, with k the nonce drawn
signer_new(secret, k) == [sk |-> secret, k |-> k, r |-> point_mul(G, k)]

\* mutant of BlindSignatureSigner::sign: the challenge is not multiplied by sk
signer_sign_without_key(sg, e_blinded) == add_mod_l(sg.k, e_blinded)

\* BlindSignatureSigner::sign
signer_sign(sg, e_blinded) == add_mod_l(sg.k, e_blinded * sg.sk)

\* r_from_signer + G * alpha - signer_pk * beta
blinded_commitment(signer_pk, r_from_signer, alpha, beta) ==
    point_sub(point_add(r_from_signer, point_mul(G, alpha)), point_mul(signer_pk, beta))

\* BlindSignatureRequester::new, with alpha and beta the blinding values drawn
requester_new(signer_pk, m, r_from_signer, alpha, beta, dg) ==
    LET r_prime == blinded_commitment(signer_pk, r_from_signer, alpha, beta)
    IN  [kind |-> "blind", alpha |-> alpha, beta |-> beta, signer_pk |-> signer_pk,
         r_prime |-> r_prime,
         e_prime |-> hash_points_and_message(<<r_prime, signer_pk>>, m, dg),
         info |-> <<>>]

\* PartiallyBlindSignatureRequester::new (the record does not keep signer_pk)
partial_requester_new(signer_pk, m, info, r_from_signer, alpha, beta, dg) ==
    LET r_prime == blinded_commitment(signer_pk, r_from_signer, alpha, beta)
    IN  [kind |-> "partial", alpha |-> alpha, beta |-> beta, signer_pk |-> Infinity,
         r_prime |-> r_prime,
         e_prime |-> hash_points_message_and_info(<<r_prime, signer_pk>>, m, info, dg),
         info |-> info]

\* mutant of create_blinded_challenge: beta added instead of subtracted
create_blinded_challenge_added(rq) == add_mod_l(rq.e_prime, rq.beta)

\* create_blinded_challenge (both requesters)
create_blinded_challenge(rq) == sub_mod_l(rq.e_prime, rq.beta)

\* BlindSignatureRequester::unblind_signature
unblind_signature(rq, s_from_signer) ==
    Signature(rq.r_prime, add_mod_l(s_from_signer, rq.alpha))

\* PartiallyBlindSignatureRequester::unblind_signature
partial_unblind_signature(rq, s_from_signer) ==
    PartiallyBlindSignature(rq.r_prime, add_mod_l(s_from_signer, rq.alpha), rq.info)

\* verify_blind_signature
verify_blind_signature(public, m, sg, dg) == verify(public, m, sg, dg)

\* --------------------------------------------------------------- the state
\* bounds of the model
MaxDigest == 13
NumMsgs == 2
NumInfos == 2
MaxS == 26
MaxNonce == 2
MaxAnswers == 2
NumRegs == 2
MaxK == 130
MaxRaw == 300
MaxScalar == 14
MaxLen == 1

\* messages: byte strings
Msgs == {<<m>> : m \in 1..NumMsgs}

\* info tags: byte strings
Infos == {<<100 + i>> : i \in 1..NumInfos}

Digests == 0..MaxDigest

NoSig == Signature(Infinity, 0)
NoVin == [fn |-> "none", pk |-> Infinity, msg |-> <<>>, sig |-> NoSig]

NoSigner == [sk |-> 0, k |-> 0, r |-> Infinity]
NoRequester == [kind |-> "none", alpha |-> 0, beta |-> 0, signer_pk |-> Infinity,
                r_prime |-> Infinity, e_prime |-> 0, info |-> <<>>]
None == 0 - 1
NoDecode == ErrRp("none")
NoFld == [op |-> "none", x |-> 0, y |-> 0, bytes |-> <<>>, out |-> 0, some |-> FALSE,
          r |-> 0, t |-> 0, c |-> 0, m |-> 0, i |-> 0, pass |-> 0, t_was |-> 0, m_was |-> 0]
NoMont == [a_sk |-> 0, a_pk |-> 0, b_sk |-> 0, b_pk |-> 0, shared_a |-> 0, shared_b |-> 0,
           k |-> 0, kg |-> Infinity, u_edwards |-> 0, u_ladder |-> 0, base |-> 0,
           p0 |-> ProjPoint(0, 0), p1 |-> ProjPoint(0, 0), j |-> 0]
NoGrp == [op |-> "none", p |-> Infinity, q |-> Infinity, r |-> Infinity,
          lhs |-> Infinity, rhs |-> Infinity, k |-> 0, zero_den |-> FALSE]

\* pc: the step reached; sk, pk: the key pair of keygen; sk2, pk2: the key pair of
\* an independent keygen; msg: the message signed; sig: the signature produced;
\* digest: SHA-512 on the byte strings hashed; vin, vres: the inputs and the
\* outcome of the last verification; signer, req: the blind-signing records;
\* chal, resp: the blinded challenge and the response in flight; answers: the
\* responses the signer has given, in order
\* din: the bytes handed to decode; reenc: the encoding of the point decoded;
\* fld: the field operation in progress; mont: the Montgomery ladder runs;
\* grp: the Edwards points computed from G
\* ein, chk: the input and the outcome of from_edwards_checked; enc, dec: the
\* encoding produced and the outcome of decoding it; regs: the RistrettoPoint
\* values the caller holds
VARIABLES pc, sk, pk, sk2, pk2, msg, sig, digest, vin, vres,
          signer, req, chal, resp, answers,
          ein, chk, enc, dec, regs,
          din, reenc, fld, mont, grp

schnorr_vars == <<pc, sk, pk, sk2, pk2, msg, sig, digest, vin, vres>>

schnorr_data == <<sk, pk, sk2, pk2, msg, sig, digest, vin, vres>>

blind_vars == <<signer, req, chal, resp, answers>>

rist_vars == <<ein, chk, enc, dec, regs>>

more_vars == <<din, reenc, fld, mont, grp>>

vars == <<pc, sk, pk, sk2, pk2, msg, sig, digest, vin, vres,
          signer, req, chal, resp, answers,
          ein, chk, enc, dec, regs,
          din, reenc, fld, mont, grp>>

\* ------------------------------------------- plain Schnorr: keygen, sign, verify
InitSchnorr ==
    /\ pc = "init"
    /\ sk = 0 /\ pk = Infinity
    /\ sk2 = 0 /\ pk2 = Infinity
    /\ msg = <<>>
    /\ sig = NoSig
    /\ digest = <<>>
    /\ vin = NoVin
    /\ vres = FALSE
    /\ signer = NoSigner
    /\ req = NoRequester
    /\ chal = None
    /\ resp = None
    /\ answers = <<>>
    /\ ein = Infinity
    /\ chk = NoneRp
    /\ enc = <<>>
    /\ dec = NoDecode
    /\ regs = [i \in 1..NumRegs |-> NoneRp]
    /\ din = <<>>
    /\ reenc = <<>>
    /\ fld = NoFld
    /\ mont = NoMont
    /\ grp = NoGrp

\* keygen()
Keygen ==
    /\ pc = "init"
    /\ \E k \in NonZeroScalars : sk' = k /\ pk' = keygen_pk(k)
    /\ pc' = "keyed"
    /\ UNCHANGED <<sk2, pk2, msg, sig, digest, vin, vres>>
    /\ UNCHANGED blind_vars
    /\ UNCHANGED rist_vars
    /\ UNCHANGED more_vars

\* sign(sk, pk, msg)
Sign ==
    /\ pc = "keyed"
    /\ \E m \in Msgs, k \in NonZeroScalars, h \in Digests :
         /\ msg' = m
         /\ digest' = Hashed(digest, hash_input(<<point_mul(G, k), pk>>, m), h)
         /\ sig' = sign(sk, pk, m, k, digest')
    /\ pc' = "signed"
    /\ UNCHANGED <<sk, pk, sk2, pk2, vin, vres>>
    /\ UNCHANGED blind_vars
    /\ UNCHANGED rist_vars
    /\ UNCHANGED more_vars

\* a second, independent keygen()
KeygenOther ==
    /\ pc = "signed"
    /\ \E k \in NonZeroScalars : sk2' = k /\ pk2' = keygen_pk(k)
    /\ pc' = "signed2"
    /\ UNCHANGED <<sk, pk, msg, sig, digest, vin, vres>>
    /\ UNCHANGED blind_vars
    /\ UNCHANGED rist_vars
    /\ UNCHANGED more_vars

\* verify(vpk, vmsg, sig) called on the inputs (vpk, vmsg)
VerifyCall(vpk, vmsg) ==
    /\ vin' = [fn |-> "verify", pk |-> vpk, msg |-> vmsg, sig |-> sig]
    /\ \E h \in HashOutcomes(digest, hash_input(<<sig.r, vpk>>, vmsg), Digests) :
         digest' = Hashed(digest, hash_input(<<sig.r, vpk>>, vmsg), h)
    /\ vres' = verify(vpk, vmsg, sig, digest')
    /\ pc' = "verified"
    /\ UNCHANGED <<sk, pk, sk2, pk2, msg, sig>>
    /\ UNCHANGED blind_vars
    /\ UNCHANGED rist_vars
    /\ UNCHANGED more_vars

\* verify(pk, m, sig) for the signed or another message (test_sign_verify_ok,
\* test_verify_tampered_message_fails)
Verify == pc = "signed" /\ \E m \in Msgs : VerifyCall(pk, m)

\* verify(pk2, msg, sig) under the independent key
\* (test_verify_wrong_public_key_fails)
VerifyOtherKey == pc = "signed2" /\ VerifyCall(pk2, msg)

NextSchnorr == Keygen \/ Sign \/ KeygenOther \/ Verify \/ VerifyOtherKey

SpecSchnorr == InitSchnorr /\ [][NextSchnorr]_vars

\* ----------------------------------------------- verify on arbitrary inputs
\* verify and verify_partially_blind_signature are public functions of the
\* signature record: the caller supplies any key, any R and any s.
InitVerify == InitSchnorr

\* verify(vpk, m, (r, s))
VerifyAny ==
    /\ pc = "init"
    /\ \E vpk \in MulCachePoints, r \in MulCachePoints, s \in 0..MaxS,
          m \in Msgs, h \in Digests :
         /\ vin' = [fn |-> "verify", pk |-> vpk, msg |-> m, sig |-> Signature(r, s)]
         /\ digest' = Hashed(digest, hash_input(<<r, vpk>>, m), h)
         /\ vres' = verify(vpk, m, Signature(r, s), digest')
    /\ pc' = "verified"
    /\ UNCHANGED <<sk, pk, sk2, pk2, msg, sig>>
    /\ UNCHANGED blind_vars
    /\ UNCHANGED rist_vars
    /\ UNCHANGED more_vars

\* verify_partially_blind_signature(vpk, m, (r, s, info))
VerifyPartialAny ==
    /\ pc = "init"
    /\ \E vpk \in MulCachePoints, r \in MulCachePoints, s \in 0..MaxS,
          m \in Msgs, info \in Infos, h \in Digests :
         /\ vin' = [fn |-> "verify_partial", pk |-> vpk, msg |-> m,
                    sig |-> PartiallyBlindSignature(r, s, info)]
         /\ digest' = Hashed(digest, hash_input_info(<<r, vpk>>, m, info), h)
         /\ vres' = verify_partially_blind_signature(vpk, m,
                       PartiallyBlindSignature(r, s, info), digest')
    /\ pc' = "verified"
    /\ UNCHANGED <<sk, pk, sk2, pk2, msg, sig>>
    /\ UNCHANGED blind_vars
    /\ UNCHANGED rist_vars
    /\ UNCHANGED more_vars

NextVerify == VerifyAny \/ VerifyPartialAny

SpecVerify == InitVerify /\ [][NextVerify]_vars

\* ------------------------------------------------- blind signing, one run
\* The run of test_blind_signature_ok and of examples/blind_signature.rs.
InitBlind == InitSchnorr

\* BlindSignatureSigner::new(sk, pk)
SignerNew ==
    /\ pc = "keyed"
    /\ \E k \in NonZeroScalars : signer' = signer_new(sk, k)
    /\ pc' = "committed"
    /\ UNCHANGED <<sk, pk, sk2, pk2, msg, sig, digest, vin, vres>>
    /\ UNCHANGED <<req, chal, resp, answers>>
    /\ UNCHANGED rist_vars
    /\ UNCHANGED more_vars

\* BlindSignatureRequester::new(pk, m, signer.r)
RequesterNew ==
    /\ pc = "committed"
    /\ \E m \in Msgs, alpha \in NonZeroScalars, beta \in NonZeroScalars, h \in Digests :
         /\ msg' = m
         /\ digest' = Hashed(digest,
                hash_input(<<blinded_commitment(pk, signer.r, alpha, beta), pk>>, m), h)
         /\ req' = requester_new(pk, m, signer.r, alpha, beta, digest')
    /\ pc' = "await_challenge"
    /\ UNCHANGED <<sk, pk, sk2, pk2, sig, vin, vres, signer, chal, resp, answers>>
    /\ UNCHANGED rist_vars
    /\ UNCHANGED more_vars

\* requester.create_blinded_challenge()
CreateBlindedChallenge ==
    /\ pc = "await_challenge"
    /\ chal' = create_blinded_challenge(req)
    /\ pc' = "await_response"
    /\ UNCHANGED <<sk, pk, sk2, pk2, msg, sig, digest, vin, vres, signer, req, resp, answers>>
    /\ UNCHANGED rist_vars
    /\ UNCHANGED more_vars

\* signer.sign(&e_blinded)
SignerSign ==
    /\ pc = "await_response"
    /\ resp' = signer_sign(signer, chal)
    /\ answers' = Append(answers, resp')
    /\ pc' = "await_unblind"
    /\ UNCHANGED <<sk, pk, sk2, pk2, msg, sig, digest, vin, vres, signer, req, chal>>
    /\ UNCHANGED rist_vars
    /\ UNCHANGED more_vars

\* requester.unblind_signature(&s_signed)
Unblind ==
    /\ pc = "await_unblind"
    /\ req.kind = "blind"
    /\ sig' = unblind_signature(req, resp)
    /\ pc' = "unblinded"
    /\ UNCHANGED <<sk, pk, sk2, pk2, msg, digest, vin, vres>>
    /\ UNCHANGED blind_vars
    /\ UNCHANGED rist_vars
    /\ UNCHANGED more_vars

\* verify_blind_signature(&pk, message, &final_sig)
VerifyBlind ==
    /\ pc = "unblinded"
    /\ req.kind = "blind"
    /\ vin' = [fn |-> "verify", pk |-> pk, msg |-> msg, sig |-> sig]
    /\ \E h \in HashOutcomes(digest, hash_input(<<sig.r, pk>>, msg), Digests) :
         digest' = Hashed(digest, hash_input(<<sig.r, pk>>, msg), h)
    /\ vres' = verify_blind_signature(pk, msg, sig, digest')
    /\ pc' = "verified"
    /\ UNCHANGED <<sk, pk, sk2, pk2, msg, sig>>
    /\ UNCHANGED blind_vars
    /\ UNCHANGED rist_vars
    /\ UNCHANGED more_vars

NextBlind ==
    \/ Keygen \/ SignerNew \/ RequesterNew \/ CreateBlindedChallenge
    \/ SignerSign \/ Unblind \/ VerifyBlind

SpecBlind == InitBlind /\ [][NextBlind]_vars

\* --------------------------------------- partially-blind signing, one run
\* The run of test_partially_blind_signature_ok, with the signer's nonce drawn
\* from 1..MaxNonce.
InitPartial == InitSchnorr

\* BlindSignatureSigner::new(sk, pk), nonce k
SignerNewBounded ==
    /\ pc = "keyed"
    /\ \E k \in 1..MaxNonce : k \in NonZeroScalars /\ signer' = signer_new(sk, k)
    /\ pc' = "committed"
    /\ UNCHANGED <<sk, pk, sk2, pk2, msg, sig, digest, vin, vres>>
    /\ UNCHANGED <<req, chal, resp, answers>>
    /\ UNCHANGED rist_vars
    /\ UNCHANGED more_vars

\* PartiallyBlindSignatureRequester::new(pk, m, info, signer.r)
PartialRequesterNew ==
    /\ pc = "committed"
    /\ \E m \in Msgs, info \in Infos, alpha \in NonZeroScalars,
          beta \in NonZeroScalars, h \in Digests :
         /\ msg' = m
         /\ digest' = Hashed(digest,
                hash_input_info(<<blinded_commitment(pk, signer.r, alpha, beta), pk>>,
                                m, info), h)
         /\ req' = partial_requester_new(pk, m, info, signer.r, alpha, beta, digest')
    /\ pc' = "await_challenge"
    /\ UNCHANGED <<sk, pk, sk2, pk2, sig, vin, vres, signer, chal, resp, answers>>
    /\ UNCHANGED rist_vars
    /\ UNCHANGED more_vars

\* requester.unblind_signature(&s_signed)
PartialUnblind ==
    /\ pc = "await_unblind"
    /\ req.kind = "partial"
    /\ sig' = partial_unblind_signature(req, resp)
    /\ pc' = "unblinded"
    /\ UNCHANGED <<sk, pk, sk2, pk2, msg, digest, vin, vres>>
    /\ UNCHANGED blind_vars
    /\ UNCHANGED rist_vars
    /\ UNCHANGED more_vars

\* verify_partially_blind_signature(&pk, m, &(sig with info replaced by info2))
VerifyPartialCall(m, info2) ==
    LET vsig == PartiallyBlindSignature(sig.r, sig.s, info2)
        inp == hash_input_info(<<vsig.r, pk>>, m, info2)
    IN  /\ vin' = [fn |-> "verify_partial", pk |-> pk, msg |-> m, sig |-> vsig]
        /\ \E h \in HashOutcomes(digest, inp, Digests) : digest' = Hashed(digest, inp, h)
        /\ vres' = verify_partially_blind_signature(pk, m, vsig, digest')
        /\ pc' = "verified"
        /\ UNCHANGED <<sk, pk, sk2, pk2, msg, sig>>
        /\ UNCHANGED blind_vars
        /\ UNCHANGED rist_vars
        /\ UNCHANGED more_vars

\* verification of the final signature
VerifyPartial == pc = "unblinded" /\ req.kind = "partial" /\ VerifyPartialCall(msg, sig.info)

\* verification with the info of the signature replaced by another
VerifyPartialTamperedInfo ==
    /\ pc = "unblinded"
    /\ req.kind = "partial"
    /\ \E info2 \in Infos \ {sig.info} : VerifyPartialCall(msg, info2)

NextPartial ==
    \/ Keygen \/ SignerNewBounded \/ PartialRequesterNew \/ CreateBlindedChallenge
    \/ SignerSign \/ PartialUnblind \/ VerifyPartial \/ VerifyPartialTamperedInfo

SpecPartial == InitPartial /\ [][NextPartial]_vars

\* ----------------------------------------- the signer record, called freely
\* BlindSignatureSigner::sign takes &self and a challenge: any caller holding the
\* record can call it with any challenge, any number of times (here up to
\* MaxAnswers).
InitSigner == InitSchnorr

\* signer.sign(&e_blinded) for a challenge a requester session sends
SignerSignAgain ==
    /\ pc = "committed"
    /\ Len(answers) < MaxAnswers
    /\ \E e_blinded \in 0..(L - 1) :
         /\ chal' = e_blinded
         /\ resp' = signer_sign(signer, e_blinded)
         /\ answers' = Append(answers, resp')
    /\ UNCHANGED <<pc, sk, pk, sk2, pk2, msg, sig, digest, vin, vres, signer, req>>
    /\ UNCHANGED rist_vars
    /\ UNCHANGED more_vars

NextSigner == Keygen \/ SignerNew \/ SignerSignAgain

SpecSigner == InitSigner /\ [][NextSigner]_vars

\* ------------------------------------- a signer view and a final signature
\* A valid unblinded signature under the key, and one signing session as the
\* signer sees it: the commitment R, the blinded challenge, the response s.
InitLink == InitSchnorr

\* the commitments R' that BlindSignatureRequester::new computes: sums of affine
\* multiples of G
FinalCommitments == {point_mul(G, t) : t \in 1..L}

\* a final signature (r, s) on m that verify_blind_signature accepts under pk
PresentFinal ==
    /\ pc = "keyed"
    /\ vin = NoVin
    /\ \E r \in FinalCommitments, s \in 0..MaxS, m \in Msgs, h \in Digests :
         /\ digest' = Hashed(digest, hash_input(<<r, pk>>, m), h)
         /\ verify_blind_signature(pk, m, Signature(r, s), digest')
         /\ vin' = [fn |-> "verify", pk |-> pk, msg |-> m, sig |-> Signature(r, s)]
         /\ vres' = TRUE
    /\ UNCHANGED <<pc, sk, pk, sk2, pk2, msg, sig>>
    /\ UNCHANGED blind_vars
    /\ UNCHANGED rist_vars
    /\ UNCHANGED more_vars

\* signer.sign(&e_blinded), the one answer of the session
SignerSignOnce ==
    /\ pc = "committed"
    /\ \E e_blinded \in 0..(L - 1) :
         /\ chal' = e_blinded
         /\ resp' = signer_sign(signer, e_blinded)
         /\ answers' = Append(answers, resp')
    /\ pc' = "await_unblind"
    /\ UNCHANGED <<sk, pk, sk2, pk2, msg, sig, digest, vin, vres, signer, req>>
    /\ UNCHANGED rist_vars
    /\ UNCHANGED more_vars

NextLink == Keygen \/ PresentFinal \/ SignerNew \/ SignerSignOnce

SpecLink == InitLink /\ [][NextLink]_vars

\* ------------------------------- the checked constructor, encode and decode
InitChecked == InitSchnorr

\* Edwards points as stored: Infinity, or a pair of field elements; a stored x
\* is below P, or is P itself, which is what negating x = 0 stores
EdwardsInputs ==
    {Infinity} \cup {Affine(x, y) : x \in 0..P, y \in 0..(P - 1)}

\* RistrettoPoint::from_edwards_checked(&p)
FromEdwardsChecked ==
    /\ pc = "init"
    /\ \E p \in EdwardsInputs : ein' = p /\ chk' = from_edwards_checked(p)
    /\ pc' = "checked"
    /\ UNCHANGED <<enc, dec, regs>>
    /\ UNCHANGED schnorr_data
    /\ UNCHANGED blind_vars
    /\ UNCHANGED more_vars

\* rp.encode() on the accepted point
Encode ==
    /\ pc = "checked"
    /\ chk.tag = "Some"
    /\ enc' = rp_encode(chk.v)
    /\ pc' = "encoded"
    /\ UNCHANGED <<ein, chk, dec, regs>>
    /\ UNCHANGED schnorr_data
    /\ UNCHANGED blind_vars
    /\ UNCHANGED more_vars

\* RistrettoPoint::decode(&enc)
Decode ==
    /\ pc = "encoded"
    /\ dec' = rp_decode(enc)
    /\ pc' = "decoded"
    /\ UNCHANGED <<ein, chk, enc, regs>>
    /\ UNCHANGED schnorr_data
    /\ UNCHANGED blind_vars
    /\ UNCHANGED more_vars

NextChecked == FromEdwardsChecked \/ Encode \/ Decode

SpecChecked == InitChecked /\ [][NextChecked]_vars

\* ------------------------------------- wrapper values held by the caller
InitRistretto == InitSchnorr

\* the Edwards points the caller computes from G: multiples and their negations
GroupInputs == MulCachePoints

\* the byte strings handed to decode
EncodingInputs == {<<b0, b1>> : b0 \in 0..127, b1 \in {0, 128}}

\* what an operation on the wrapper values leaves alone
held_frame == <<pc, ein, chk, enc, dec, sk, pk, sk2, pk2, msg, sig, digest, vin, vres,
                signer, req, chal, resp, answers, more_vars>>

\* regs[i] = RistrettoPoint::from_edwards_checked(&p)
RFromEdwardsChecked ==
    \E i \in 1..NumRegs, p \in GroupInputs :
        /\ regs' = [regs EXCEPT ![i] = from_edwards_checked(p)]
        /\ UNCHANGED held_frame

\* regs[i] = RistrettoPoint::from(&p)
RFrom ==
    \E i \in 1..NumRegs, p \in GroupInputs :
        /\ regs' = [regs EXCEPT ![i] = SomeRp(rp_from(p))]
        /\ UNCHANGED held_frame

\* regs[i] = regs[1].add(&regs[2])
RAdd ==
    \E i \in 1..NumRegs :
        /\ \A j \in 1..NumRegs : regs[j].tag = "Some"
        /\ regs' = [regs EXCEPT ![i] = SomeRp(rp_add(regs[1].v, regs[2].v))]
        /\ UNCHANGED held_frame

\* regs[i] = regs[j].neg()
RNeg ==
    \E i, j \in 1..NumRegs :
        /\ regs[j].tag = "Some"
        /\ regs' = [regs EXCEPT ![i] = SomeRp(rp_neg(regs[j].v))]
        /\ UNCHANGED held_frame

\* regs[i] = regs[j].mul(&k)
RMul ==
    \E i, j \in 1..NumRegs, k \in 0..MaxScalar :
        /\ regs[j].tag = "Some"
        /\ regs' = [regs EXCEPT ![i] = SomeRp(rp_mul(regs[j].v, k))]
        /\ UNCHANGED held_frame

\* the Option that Result::ok() makes of a decode outcome
decode_ok(r) == IF r.tag = "Ok" THEN SomeRp(r.v) ELSE NoneRp

\* regs[i] = RistrettoPoint::decode(&bytes).ok()
RDecode ==
    \E i \in 1..NumRegs, bytes \in EncodingInputs :
        /\ regs' = [regs EXCEPT ![i] = decode_ok(rp_decode(bytes))]
        /\ UNCHANGED held_frame

NextRistretto == RFromEdwardsChecked \/ RFrom \/ RAdd \/ RNeg \/ RMul \/ RDecode

SpecRistretto == InitRistretto /\ [][NextRistretto]_vars

\* ------------------------------------------------- decode on every byte string
InitDecode == InitSchnorr

\* every byte string of the encoding length
AllEncodings == {<<b0, b1>> : b0 \in 0..255, b1 \in 0..255}

\* RistrettoPoint::decode(&bytes)
DecodeAny ==
    /\ pc = "init"
    /\ \E bytes \in AllEncodings : din' = bytes /\ dec' = rp_decode(bytes)
    /\ pc' = "decoded"
    /\ UNCHANGED <<ein, chk, enc, regs, reenc, fld, mont, grp>>
    /\ UNCHANGED schnorr_data
    /\ UNCHANGED blind_vars

\* rp.encode() on the point decoded
EncodeDecoded ==
    /\ pc = "decoded"
    /\ dec.tag = "Ok"
    /\ reenc' = rp_encode(dec.v)
    /\ pc' = "reencoded"
    /\ UNCHANGED <<ein, chk, enc, dec, regs, din, fld, mont, grp>>
    /\ UNCHANGED schnorr_data
    /\ UNCHANGED blind_vars

NextDecode == DecodeAny \/ EncodeDecoded

SpecDecode == InitDecode /\ [][NextDecode]_vars

\* ----------------------------------------------- Montgomery Diffie-Hellman
InitDH == InitSchnorr

\* the scalars gen_biguint_below(&L) returns
DrawnScalars == 0..(L - 1)

dh_frame == <<ein, chk, enc, dec, regs, din, reenc, fld, grp, sk, pk, sk2, pk2, msg, sig,
              digest, vin, vres, signer, req, chal, resp, answers>>

\* Alice: a_sk, a_pk = montgomery_ladder(&G_MONT, &a_sk)
DHAlice ==
    /\ pc = "init"
    /\ \E a \in DrawnScalars :
           mont' = [mont EXCEPT !.a_sk = a, !.a_pk = montgomery_ladder(G_MONT, a)]
    /\ pc' = "alice"
    /\ UNCHANGED dh_frame

\* Bob: b_sk, b_pk = montgomery_ladder(&G_MONT, &b_sk)
DHBob ==
    /\ pc = "alice"
    /\ \E b \in DrawnScalars :
           mont' = [mont EXCEPT !.b_sk = b, !.b_pk = montgomery_ladder(G_MONT, b)]
    /\ pc' = "bob"
    /\ UNCHANGED dh_frame

\* shared_secret_a = montgomery_ladder(&b_pk, &a_sk)
DHSharedA ==
    /\ pc = "bob"
    /\ mont' = [mont EXCEPT !.shared_a = montgomery_ladder(mont.b_pk, mont.a_sk)]
    /\ pc' = "shared_a"
    /\ UNCHANGED dh_frame

\* shared_secret_b = montgomery_ladder(&a_pk, &b_sk)
DHSharedB ==
    /\ pc = "shared_a"
    /\ mont' = [mont EXCEPT !.shared_b = montgomery_ladder(mont.a_pk, mont.b_sk)]
    /\ pc' = "shared_b"
    /\ UNCHANGED dh_frame

NextDH == DHAlice \/ DHBob \/ DHSharedA \/ DHSharedB

SpecDH == InitDH /\ [][NextDH]_vars

\* ------------------------------------ the ladder against Edwards double-and-add
InitLadder == InitSchnorr

\* &*G * k
LadderEdwardsMul ==
    /\ pc = "init"
    /\ \E k \in 1..MaxK : mont' = [mont EXCEPT !.k = k, !.kg = point_mul(G, k)]
    /\ pc' = "multiplied"
    /\ UNCHANGED dh_frame

\* u = (1 + y) / (1 - y) of k*G
LadderMapU ==
    /\ pc = "multiplied"
    /\ mont' = [mont EXCEPT !.u_edwards = edwards_to_montgomery_u(mont.kg)]
    /\ pc' = "mapped"
    /\ UNCHANGED dh_frame

\* montgomery_ladder(&G_MONT, &k)
LadderRun ==
    /\ pc = "mapped"
    /\ mont' = [mont EXCEPT !.u_ladder = montgomery_ladder(G_MONT, mont.k)]
    /\ pc' = "laddered"
    /\ UNCHANGED dh_frame

NextLadder == LadderEdwardsMul \/ LadderMapU \/ LadderRun

SpecLadder == InitLadder /\ [][NextLadder]_vars

\* ---------------------------------------------------- field operations, one call
InitField == InitSchnorr

\* the integers stored in canonical field elements
Canonical == 0..(P - 1)

\* the integers stored in the field elements the operations return on canonical
\* inputs: a negation stores p - x, which is p for x = 0
FieldElements == Canonical \cup {fe_neg(x) : x \in Canonical}

field_frame == <<ein, chk, enc, dec, regs, din, reenc, mont, grp, sk, pk, sk2, pk2, msg, sig,
                 digest, vin, vres, signer, req, chal, resp, answers>>

\* the record of a call that returned the field element out
Returned(op, x, y, out) ==
    /\ fld' = [NoFld EXCEPT !.op = op, !.x = x, !.y = y, !.out = out, !.some = TRUE]
    /\ pc' = "returned"
    /\ UNCHANGED field_frame

\* the record of a call that returned an Option<FieldElement>
ReturnedOption(op, x, bytes, o) ==
    /\ fld' = [NoFld EXCEPT !.op = IF o.tag = "Panic" THEN "panic" ELSE op, !.x = x,
                             !.bytes = bytes, !.out = o.v, !.some = (o.tag = "Some")]
    /\ pc' = "returned"
    /\ UNCHANGED field_frame

FieldNew == pc = "init" /\ \E n \in 0..MaxRaw : Returned("new", n, 0, fe_new(n))

FieldFromHex == pc = "init" /\ \E n \in 0..MaxRaw : Returned("from_hex", n, 0, fe_from_hex(n))

FieldZero == pc = "init" /\ Returned("zero", 0, 0, fe_zero)

FieldOne == pc = "init" /\ Returned("one", 0, 0, fe_one)

FieldNeg == pc = "init" /\ \E x \in Canonical : Returned("neg", x, 0, fe_neg(x))

FieldAdd == pc = "init" /\ \E x, y \in Canonical : Returned("add", x, y, fe_add(x, y))

FieldSub == pc = "init" /\ \E x, y \in Canonical : Returned("sub", x, y, fe_sub(x, y))

FieldMul == pc = "init" /\ \E x, y \in Canonical : Returned("mul", x, y, fe_mul(x, y))

FieldInv == pc = "init" /\ \E x \in Canonical : Returned("inv", x, 0, fe_inv(x))

FieldPowBig ==
    pc = "init" /\ \E x \in Canonical, e \in 0..MaxRaw : Returned("pow_big", x, e, fe_pow_big(x, e))

\* sqrt on every field element the operations return: the canonical ones and -0
FieldSqrt == pc = "init" /\ \E x \in FieldElements : ReturnedOption("sqrt", x, <<>>, fe_sqrt(x))

FieldFromLeBytes ==
    pc = "init" /\ \E b \in EncodingInputs :
        ReturnedOption("from_le_bytes_canonical", 0, b, fe_from_le_bytes_canonical(b))

NextField ==
    \/ FieldNew \/ FieldFromHex \/ FieldZero \/ FieldOne \/ FieldNeg \/ FieldAdd
    \/ FieldSub \/ FieldMul \/ FieldInv \/ FieldPowBig \/ FieldSqrt \/ FieldFromLeBytes

SpecField == InitField /\ [][NextField]_vars

\* ------------------------------------------------ the group laws, one evaluation
InitGroup == InitSchnorr

\* the values the library computes for the points of the subgroup of G
SubgroupPoints == MulCachePoints

\* the values the library computes for the neutral element: 0*G and L*G
Neutrals == {point_mul(G, 0), point_mul(G, L)}

group_frame == <<ein, chk, enc, dec, regs, din, reenc, fld, mont, sk, pk, sk2, pk2, msg, sig,
                 digest, vin, vres, signer, req, chal, resp, answers>>

\* the record of a law evaluated to lhs and rhs
Evaluated(op, p, q, r, lhs, rhs) ==
    /\ grp' = [NoGrp EXCEPT !.op = op, !.p = p, !.q = q, !.r = r, !.lhs = lhs, !.rhs = rhs]
    /\ pc' = "evaluated"
    /\ UNCHANGED group_frame

\* P + neutral against P
LawRightNeutral ==
    pc = "init" /\ \E p \in SubgroupPoints, n \in Neutrals :
        Evaluated("right_neutral", p, n, Infinity, point_add(p, n), p)

\* neutral + P against P
LawLeftNeutral ==
    pc = "init" /\ \E p \in SubgroupPoints, n \in Neutrals :
        Evaluated("left_neutral", p, n, Infinity, point_add(n, p), p)

\* P + (-P) against neutral
LawInverse ==
    pc = "init" /\ \E p \in SubgroupPoints, n \in Neutrals :
        Evaluated("inverse", p, n, Infinity, point_add(p, point_neg(p)), n)

\* (P + Q) + R against P + (Q + R)
LawAssociative ==
    pc = "init" /\ \E p, q, r \in SubgroupPoints :
        Evaluated("associative", p, q, r, point_add(point_add(p, q), r),
                  point_add(p, point_add(q, r)))

NextGroup == LawRightNeutral \/ LawLeftNeutral \/ LawInverse \/ LawAssociative

SpecGroup == InitGroup /\ [][NextGroup]_vars

\* ------------------------------------------------ the multiples of the base point
InitOrder == InitSchnorr

\* &*G * k
OrderMul ==
    /\ pc = "init"
    /\ \E k \in 0..MaxK :
           grp' = [NoGrp EXCEPT !.op = "mul_g", !.k = k, !.lhs = point_mul(G, k)]
    /\ pc' = "multiplied"
    /\ UNCHANGED group_frame

NextOrder == OrderMul \/ Keygen

SpecOrder == InitOrder /\ [][NextOrder]_vars

\* ------------------------------------------------ the points reachable from G
InitWalk == InitSchnorr

\* two point variables of a caller, both holding G at first
WalkStart ==
    /\ pc = "init"
    /\ grp' = [NoGrp EXCEPT !.op = "start", !.p = G, !.q = G]
    /\ pc' = "walking"
    /\ UNCHANGED group_frame

\* a + b, stored in either variable
WalkAdd ==
    /\ pc = "walking"
    /\ \E a, b \in {grp.p, grp.q}, to_p \in BOOLEAN :
           grp' = [grp EXCEPT !.op = "add",
                              !.p = IF to_p THEN point_add(a, b) ELSE @,
                              !.q = IF to_p THEN @ ELSE point_add(a, b),
                              !.zero_den = @ \/ add_zero_den(a, b)]
    /\ UNCHANGED pc
    /\ UNCHANGED group_frame

\* a - b, stored in either variable
WalkSub ==
    /\ pc = "walking"
    /\ \E a, b \in {grp.p, grp.q}, to_p \in BOOLEAN :
           grp' = [grp EXCEPT !.op = "sub",
                              !.p = IF to_p THEN point_sub(a, b) ELSE @,
                              !.q = IF to_p THEN @ ELSE point_sub(a, b),
                              !.zero_den = @ \/ add_zero_den(a, point_neg(b))]
    /\ UNCHANGED pc
    /\ UNCHANGED group_frame

\* -a, stored in either variable
WalkNeg ==
    /\ pc = "walking"
    /\ \E a \in {grp.p, grp.q}, to_p \in BOOLEAN :
           grp' = [grp EXCEPT !.op = "neg",
                              !.p = IF to_p THEN point_neg(a) ELSE @,
                              !.q = IF to_p THEN @ ELSE point_neg(a)]
    /\ UNCHANGED pc
    /\ UNCHANGED group_frame

\* a * k, stored in either variable
WalkMul ==
    /\ pc = "walking"
    /\ \E a \in {grp.p, grp.q}, k \in 0..MaxScalar, to_p \in BOOLEAN :
           grp' = [grp EXCEPT !.op = "mul",
                              !.k = k,
                              !.p = IF to_p THEN point_mul(a, k) ELSE @,
                              !.q = IF to_p THEN @ ELSE point_mul(a, k),
                              !.zero_den = @ \/ mul_zero_den(Infinity, a, k)]
    /\ UNCHANGED pc
    /\ UNCHANGED group_frame

NextWalk == WalkStart \/ WalkAdd \/ WalkSub \/ WalkNeg \/ WalkMul

SpecWalk == InitWalk /\ [][NextWalk]_vars

\* ------------------------------------------------ the main loop of sqrt, pass by pass
InitSqrt == InitSchnorr

\* FieldElement::sqrt up to the loop: x is not zero and legendre(x) = 1
SqrtStart ==
    /\ pc = "init"
    /\ \E x \in FieldElements :
          /\ ~fe_is_zero(x)
          /\ fe_legendre(x) = 1
          /\ LET f == sqrt_factor(P - 1, 0)
                 z == sqrt_nonresidue(2)
             IN  fld' = [NoFld EXCEPT !.op = "sqrt_loop", !.x = x,
                                      !.c = fe_pow_big(z, f.q),
                                      !.t = fe_pow_big(x, f.q),
                                      !.r = fe_pow_big(x, (f.q + 1) \div 2),
                                      !.m = f.s]
    /\ pc' = "looping"
    /\ UNCHANGED field_frame

\* one pass of while !t_cur.is_one(); m - i - 1 is a u32 subtraction
SqrtPass ==
    /\ pc = "looping"
    /\ ~fe_is_one(fld.t)
    /\ LET i == sqrt_find_i(1, fld.t, fld.m)
           e == fld.m - i - 1
           b == sqrt_square_times(fld.c, e)
           b2 == fe_mul(b, b)
       IN  IF e < 0
           THEN /\ fld' = [fld EXCEPT !.op = "panic", !.i = i, !.t_was = fld.t,
                                      !.m_was = fld.m]
                /\ pc' = "panicked"
           ELSE /\ fld' = [fld EXCEPT !.r = fe_mul(fld.r, b),
                                      !.t = fe_mul(fld.t, b2),
                                      !.c = b2,
                                      !.m = i,
                                      !.i = i,
                                      !.pass = @ + 1,
                                      !.t_was = fld.t,
                                      !.m_was = fld.m]
                /\ pc' = "looping"
    /\ UNCHANGED field_frame

\* the loop ends: Some(r)
SqrtReturn ==
    /\ pc = "looping"
    /\ fe_is_one(fld.t)
    /\ fld' = [fld EXCEPT !.out = fld.r, !.some = TRUE]
    /\ pc' = "returned"
    /\ UNCHANGED field_frame

NextSqrt == SqrtStart \/ SqrtPass \/ SqrtReturn

\* the loop is sequential code: a pass that can run does run
SpecSqrt == InitSqrt /\ [][NextSqrt]_vars /\ WF_vars(NextSqrt)

\* ------------------------------------------------ the ladder, iteration by iteration
InitLadderLoop == InitSchnorr

\* montgomery_ladder(p, k) up to the loop: p0 = (1 : 0), p1 = (p.0 : 1)
LadderEnter ==
    /\ pc = "init"
    /\ \E u \in Canonical, k \in 0..MaxK :
           mont' = [NoMont EXCEPT !.base = u, !.k = k, !.p0 = ProjPoint(fe_one, fe_zero),
                                  !.p1 = ProjPoint(u, fe_one)]
    /\ pc' = "ladder_loop"
    /\ UNCHANGED dh_frame

\* one iteration of for i in (0..k.bits()).rev(): mont.j iterations are done, the
\* next one reads bit k.bits() - 1 - j
LadderIterate ==
    /\ pc = "ladder_loop"
    /\ mont.j < bits(mont.k)
    /\ LET nx == ladder_iteration(mont.p0, mont.p1, mont.base, mont.k,
                                  bits(mont.k) - 1 - mont.j)
       IN  mont' = [mont EXCEPT !.p0 = nx[1], !.p1 = nx[2], !.j = @ + 1]
    /\ UNCHANGED pc
    /\ UNCHANGED dh_frame

\* the range is exhausted: p0.to_montgomery()
LadderExit ==
    /\ pc = "ladder_loop"
    /\ mont.j = bits(mont.k)
    /\ mont' = [mont EXCEPT !.u_ladder = to_montgomery(mont.p0)]
    /\ pc' = "ladder_done"
    /\ UNCHANGED dh_frame

NextLadderLoop == LadderEnter \/ LadderIterate \/ LadderExit

SpecLadderLoop == InitLadderLoop /\ [][NextLadderLoop]_vars

\* ------------------------------------------ one signer answering two challenges
\* sign takes &self and any BigUint: the caller holding the signer passes two
\* challenges, reduced or not, and keeps each with its answer.
InitReuse == InitSchnorr

\* signer.sign(&e_blinded), the challenge recorded with the answer
ReuseSign ==
    /\ pc = "committed"
    /\ Len(answers) < MaxAnswers
    /\ \E e_blinded \in 0..MaxS :
         /\ chal' = e_blinded
         /\ resp' = signer_sign(signer, e_blinded)
         /\ answers' = Append(answers, [e |-> e_blinded, s |-> resp'])
    /\ UNCHANGED <<pc, sk, pk, sk2, pk2, msg, sig, digest, vin, vres, signer, req>>
    /\ UNCHANGED rist_vars
    /\ UNCHANGED more_vars

NextReuse == Keygen \/ SignerNew \/ ReuseSign

SpecReuse == InitReuse /\ [][NextReuse]_vars

\* ------------------------------------------ the neutral element under ==
InitNeutral == InitSchnorr

\* the points of order L the library computes from G
OrderLPoints == {p \in MulCachePoints : ~is_identity_point(p)}

\* p * k against p * (k % L)
CompareMul ==
    /\ pc = "init"
    /\ \E p \in OrderLPoints, k \in 0..MaxK :
           grp' = [NoGrp EXCEPT !.op = "mul", !.p = p, !.k = k,
                                !.lhs = point_mul(p, k),
                                !.rhs = point_mul(p, k % L)]
    /\ pc' = "compared"
    /\ UNCHANGED group_frame

\* p + (-p) against p * 0
CompareInverse ==
    /\ pc = "init"
    /\ \E p \in OrderLPoints :
           grp' = [NoGrp EXCEPT !.op = "inverse", !.p = p,
                                !.lhs = point_add(p, point_neg(p)),
                                !.rhs = point_mul(p, 0)]
    /\ pc' = "compared"
    /\ UNCHANGED group_frame

NextNeutral == CompareMul \/ CompareInverse

SpecNeutral == InitNeutral /\ [][NextNeutral]_vars

\* --------------------------- a partially-blind signature under another (msg, info)
\* msg and info are byte slices of any length, the empty one included: here the
\* strings of at most MaxLen bytes. The blinding values are drawn from 1..MaxNonce.
InitHashInput == InitSchnorr

ByteStrings == UNION {[1..n -> 1..NumMsgs] : n \in 0..MaxLen}

\* PartiallyBlindSignatureRequester::new(pk, m, info, signer.r)
PartialRequesterNewBytes ==
    /\ pc = "committed"
    /\ \E m \in ByteStrings, info \in ByteStrings, alpha \in 1..MaxNonce,
          beta \in 1..MaxNonce, h \in Digests :
         /\ alpha \in NonZeroScalars
         /\ beta \in NonZeroScalars
         /\ msg' = m
         /\ digest' = Hashed(digest,
                hash_input_info(<<blinded_commitment(pk, signer.r, alpha, beta), pk>>,
                                m, info), h)
         /\ req' = partial_requester_new(pk, m, info, signer.r, alpha, beta, digest')
    /\ pc' = "await_challenge"
    /\ UNCHANGED <<sk, pk, sk2, pk2, sig, vin, vres, signer, chal, resp, answers>>
    /\ UNCHANGED rist_vars
    /\ UNCHANGED more_vars

\* verify_partially_blind_signature(&pk, m2, &(sig with info replaced by info2)) for
\* another pair (m2, info2)
VerifyPartialOtherPair ==
    /\ pc = "unblinded"
    /\ req.kind = "partial"
    /\ \E m2 \in ByteStrings, info2 \in ByteStrings :
          /\ <<m2, info2>> # <<msg, sig.info>>
          /\ VerifyPartialCall(m2, info2)

NextHashInput ==
    \/ Keygen \/ SignerNewBounded \/ PartialRequesterNewBytes \/ CreateBlindedChallenge
    \/ SignerSign \/ PartialUnblind \/ VerifyPartial \/ VerifyPartialOtherPair

SpecHashInput == InitHashInput /\ [][NextHashInput]_vars

\* ------------------------------------------------------------------- claims
\* the neutral element, in any representation
IsNeutral(p) == LET c == coords(p) IN c[1] % P = 0 /\ c[2] % P = 1

\* equality of two points as group elements
SamePoint(p, q) ==
    LET c == coords(p)
        e == coords(q)
    IN  c[1] % P = e[1] % P /\ c[2] % P = e[2] % P

\* the discrete logarithm of a multiple of G
DLog(p) == CHOOSE k \in 0..(L - 1) : SamePoint(p, point_mul(G, k))

\* no two byte strings hashed have the same challenge modulo L
CollisionFree(dg) ==
    \A a, b \in DOMAIN dg : a # b => mod_l(dg[a]) # mod_l(dg[b])

\* the challenge verify computed in the state
VerifyChallenge ==
    IF vin.fn = "verify"
    THEN hash_points_and_message(<<vin.sig.r, vin.pk>>, vin.msg, digest)
    ELSE hash_points_message_and_info(<<vin.sig.r, vin.pk>>, vin.msg, vin.sig.info, digest)

\* verify has been called on the signature, key and message of sign
VerifiedOwn ==
    /\ pc = "verified"
    /\ vin = [fn |-> "verify", pk |-> pk, msg |-> msg, sig |-> sig]

\* C1 (as claimed): every signature sign returns is accepted by verify under the
\* same key and message, whatever the challenge.
C1_SignThenVerifyAccepts == VerifiedOwn => vres = TRUE

\* C2 (as claimed): the signature a complete blind run unblinds is accepted by
\* verify_blind_signature under the signer's key and the requester's message,
\* for all sk, k, alpha, beta and every challenge.
C2_BlindRunAccepts == (pc = "verified" /\ req.kind = "blind") => vres = TRUE

\* C3 (as claimed): one signer record, one commitment (k, R), answers at most one
\* blinded challenge.
C3_SingleUse == Len(answers) <= 1

\* C4 (as claimed): the signature of a complete partially-blind run is accepted
\* under its own info and rejected under any other info (hash collision-free).
C4_PartialBindsInfo ==
    (pc = "verified" /\ vin.fn = "verify_partial" /\ CollisionFree(digest)) =>
        (vres <=> vin.sig.info = sig.info)

\* the challenge sign computed for the signature of the state
SignChallenge == hash_points_and_message(<<sig.r, pk>>, msg, digest)

\* verify has been called on the signature of sign with another message
VerifiedOtherMsg ==
    /\ pc = "verified" /\ vin.fn = "verify" /\ vin.sig = sig
    /\ sk2 = 0 /\ vin.pk = pk /\ vin.msg # msg

\* verify has been called on the signature of sign under the key of an
\* independent keygen
VerifiedOtherKey ==
    /\ pc = "verified" /\ vin.fn = "verify" /\ vin.sig = sig
    /\ sk2 # 0 /\ vin.pk = pk2 /\ vin.msg = msg

LinkRequester(alpha, beta) ==
    [kind |-> "blind", alpha |-> alpha, beta |-> beta, signer_pk |-> pk,
     r_prime |-> vin.sig.r, e_prime |-> VerifyChallenge, info |-> <<>>]

\* the blinding values BlindSignatureRequester::new can draw that link the
\* signer's view (signer.r, chal, resp) to the final signature of vin
Links ==
    LET as == {a \in NonZeroScalars :
                 unblind_signature(LinkRequester(a, 1), resp) = vin.sig}
        bs == {b \in NonZeroScalars :
                 create_blinded_challenge(LinkRequester(1, b)) = chal}
    IN  {ab \in as \X bs :
           blinded_commitment(pk, signer.r, ab[1], ab[2]) = vin.sig.r}

\* a signer view and a valid final signature are both present
ViewAndFinal == pc = "await_unblind" /\ vin.fn = "verify" /\ vres

\* C7 (as claimed): every signer view and every valid final signature are linked
\* by exactly one pair of blinding values the requester can draw.
C7_ExactlyOneLink == ViewAndFinal => Cardinality(Links) = 1

\* C7 (amended): a signer view (R, e_blind, s) and a valid final signature
\* (R', s') with challenge e' are linked by exactly one drawable pair when
\* s' # s and e' # e_blind, and by none otherwise.
C7_LinkUnlessEqual ==
    ViewAndFinal =>
        Cardinality(Links) = IF vin.sig.s # resp /\ VerifyChallenge # chal THEN 1 ELSE 0

\* C7 witness: a view and a final signature with their one link
C7_Witness == ViewAndFinal /\ Cardinality(Links) = 1 /\ vin.sig.r = Affine(0, 1)

\* C5: verify and verify_partially_blind_signature accept a signature iff
\* 1 <= s < L and s*G = R + e*pk in the group; every s = 0 and every s >= L is
\* rejected, also when the equation holds for it; the outcome is a boolean.
C5_RangeCheck ==
    pc = "verified" =>
      /\ vres \in BOOLEAN
      /\ vres <=> /\ 1 <= vin.sig.s
                  /\ vin.sig.s < L
                  /\ vin.sig.s % L = (DLog(vin.sig.r) + VerifyChallenge * DLog(vin.pk)) % L

\* C5 witness: a signature with s >= L for which s*G = R + e*pk holds is rejected,
\* by the partially-blind verifier
C5_Witness ==
    /\ pc = "verified"
    /\ vin.fn = "verify_partial"
    /\ vin.sig.s >= L
    /\ ~IsNeutral(vin.pk)
    /\ point_mul(G, vin.sig.s) = point_add(vin.sig.r, point_mul(vin.pk, VerifyChallenge))
    /\ vres = FALSE

\* the point is in the subgroup of order L and is not the neutral element
PrimeOrder(p) == IsNeutral(point_mul(p, L)) /\ ~IsNeutral(p)

\* the stored coordinates satisfy a*x^2 + y^2 = 1 + d*x^2*y^2
OnCurve(p) ==
    LET c == coords(p)
        x2 == fe_mul(c[1], c[1])
        y2 == fe_mul(c[2], c[2])
    IN  fe_add(fe_mul(EDW_A_VAL, x2), y2) % P
            = fe_add(1, fe_mul(EDW_D_VAL, fe_mul(x2, y2))) % P

\* C8: every RistrettoPoint the caller holds, obtained from from_edwards_checked,
\* From, decode, add, neg or mul, wraps a point P with L*P neutral and P not
\* neutral
C8_PrimeOrderInvariant ==
    \A i \in 1..NumRegs : regs[i].tag = "Some" => PrimeOrder(regs[i].v.inner)

\* C9: from_edwards_checked(P) is Some(wrapper of P) exactly when L*P is the
\* neutral element and P is not, and is None in every other case
C9_CheckedIffPrimeOrder ==
    pc = "checked" =>
        chk = IF PrimeOrder(ein) THEN SomeRp(RistrettoPoint(ein)) ELSE NoneRp

\* C10: for every point of the curve accepted by from_edwards_checked, encode
\* gives ENCODING_LEN bytes and decode of them returns Ok of the same point
C10_RoundTrip ==
    (pc = "decoded" /\ OnCurve(ein)) =>
        /\ Len(enc) = ENCODING_LEN
        /\ dec = OkRp(chk.v)

\* the x field of an encoding: the integer left after clearing the sign bit
XField(bytes) == from_bytes_le([bytes EXCEPT ![ENCODING_LEN] = @ % 128])

C12_TypedDecodeFailure ==
    (pc = "decoded" /\ XField(din) < P /\ dec.tag # "Ok") =>
        dec = ErrRp("InvalidEncoding")

\* C13: for all scalars a and b in [0, L), the two shared secrets
\* montgomery_ladder(montgomery_ladder(u(G), b), a) and
\* montgomery_ladder(montgomery_ladder(u(G), a), b) are equal
C13_DHAgreement == pc = "shared_b" => mont.shared_a = mont.shared_b

\* C13 witness: an exchange with two different scalars above 1 and a shared
\* secret that is not 0
C13_Witness ==
    /\ pc = "shared_b"
    /\ mont.a_sk > 1 /\ mont.b_sk > 1 /\ mont.a_sk # mont.b_sk
    /\ mont.shared_a = mont.shared_b /\ mont.shared_a # 0

\* C14: for every k >= 1, in particular every k in [1, L), the Montgomery
\* u-coordinate (1 + y)/(1 - y) of k*G computed by the Edwards double-and-add
\* equals montgomery_ladder(u(G), k)
C14_LadderAgreement == pc = "laddered" => mont.u_edwards = mont.u_ladder

\* C14 witness: agreement for a k in [2, L), at a point other than G
C14_Witness ==
    /\ pc = "laddered"
    /\ mont.k > 1 /\ mont.k < L
    /\ mont.u_ladder = mont.u_edwards /\ mont.u_ladder # G_MONT

\* the call of the state was made on canonical inputs (for from_hex: the
\* digits of an integer below p)
CanonicalInputs == fld.op \in {"from_hex", "sqrt"} => fld.x < P

\* C15 (as claimed): every field element returned by a field operation on
\* canonical inputs holds an integer in [0, p), so that is_zero agrees with
\* being 0 modulo p; in particular neg(0) is 0
C15_CanonicalResults ==
    (pc = "returned" /\ fld.some /\ CanonicalInputs) =>
        /\ fld.out \in Canonical
        /\ fe_is_zero(fld.out) <=> fld.out % P = 0

\* C16 (as claimed): sqrt(x) is Some(0) when x is zero, Some(r) with r*r = x
\* when legendre(x) = +1 and None when legendre(x) = -1, for every field
\* element x; legendre(x) = +1 exactly when x is a nonzero square
C16_SqrtContract ==
    (pc = "returned" /\ fld.op = "sqrt") =>
        /\ fld.x % P = 0 => (fld.some /\ fld.out = 0)
        /\ fe_legendre(fld.x) = 1 => (fld.some /\ fe_mul(fld.out, fld.out) = fld.x)
        /\ fe_legendre(fld.x) = 0 - 1 => ~fld.some
        /\ fe_legendre(fld.x) = 1 <=>
              (fld.x % P # 0 /\ \E r \in Canonical : fe_mul(r, r) = fld.x % P)

\* C17 (as claimed): for all P, Q, R of the subgroup of G, P + neutral = P,
\* neutral + P = P, P + (-P) = neutral and (P + Q) + R = P + (Q + R), the two
\* sides compared with the derived == of EdwardsPoint
C17_GroupLaws == pc = "evaluated" => grp.lhs = grp.rhs

\* C18: k*G is the neutral element exactly when L divides k: L*G is the neutral
\* element (the Affine(0, 1) the test compares with) and k*G is not for k in
\* [1, L), h = 8 included; the key pair of keygen has sk in [1, L) and a public
\* key that is not the neutral element
C18_BasePointOrder ==
    /\ (pc = "multiplied" /\ grp.op = "mul_g") =>
          /\ IsNeutral(grp.lhs) <=> grp.k % L = 0
          /\ grp.k = L => grp.lhs = Affine(0, 1)
          /\ grp.k \in 1..(L - 1) => grp.lhs \notin {Infinity, Affine(0, 1)}
    /\ pc = "keyed" =>
          /\ sk \in 1..(L - 1)
          /\ pk = point_mul(G, sk)
          /\ ~IsNeutral(pk) /\ pk # Infinity

\* C18 witness: h*G has been computed and is not the neutral element
C18_Witness ==
    pc = "multiplied" /\ grp.op = "mul_g" /\ grp.k = H /\ ~IsNeutral(grp.lhs)

\* C19: every point reached from G by add, sub, neg and scalar multiplication is
\* the neutral element or satisfies a*x^2 + y^2 = 1 + d*x^2*y^2, and no addition
\* performed on the way (those inside sub and the scalar multiplication
\* included) had a zero denominator
C19_OnCurveInvariant ==
    pc = "walking" =>
        /\ \A pt \in {grp.p, grp.q} : IsNeutral(pt) \/ OnCurve(pt)
        /\ ~grp.zero_den

\* C19 witness: a scalar multiplication has produced a point that is neither G
\* nor neutral, beside a different point that is not neutral either
C19_Witness ==
    /\ pc = "walking" /\ grp.op = "mul" /\ grp.k > 1
    /\ ~IsNeutral(grp.p) /\ ~IsNeutral(grp.q)
    /\ ~SamePoint(grp.p, grp.q) /\ ~SamePoint(grp.p, G) /\ ~SamePoint(grp.q, G)
    /\ OnCurve(grp.p) /\ OnCurve(grp.q) /\ ~grp.zero_den

\* the state of the main loop of sqrt after `pass` passes
C20_LoopInvariant ==
    /\ pc # "panicked"
    /\ pc \in {"looping", "returned"} =>
          /\ fe_mul(fld.r, fld.r) = fe_mul(fld.x, fld.t)
          /\ fld.pass <= sqrt_factor(P - 1, 0).s
          /\ fld.m >= 1
          /\ fld.pass > 0 =>
                /\ 1 <= fld.i /\ fld.i < fld.m_was
                /\ fe_pow_big(fld.t_was, 2 ^ fld.i) = 1
                /\ fld.m = fld.i
                /\ fld.m_was - fld.i - 1 >= 0
    /\ pc = "returned" =>
          /\ fld.t = 1
          /\ fe_mul(fld.out, fld.out) = fld.x
          /\ fe_sqrt(fld.x) = SomeFe(fld.out)

\* C20: for every nonzero x with legendre(x) = 1, each pass of the main loop of
\* sqrt finds i with 1 <= i < m and t^(2^i) = 1, so m - i - 1 does not underflow;
\* m strictly decreases; r*r = x*t holds after every pass; and the loop ends with
\* t = 1 after at most s passes, p - 1 = q * 2^s
C20_TonelliShanksTerminates ==
    /\ []C20_LoopInvariant
    /\ [][(pc = "looping" /\ pc' = "looping") => fld'.m < fld.m]_vars
    /\ (pc = "looping") ~> (pc = "returned" /\ fld.t = 1)

\* C20 witness: sqrt has returned after more than one pass of the loop
C20_Witness ==
    /\ pc = "returned" /\ fld.op = "sqrt_loop" /\ fld.pass > 1
    /\ fe_mul(fld.out, fld.out) = fld.x /\ fld.t = 1

\* a point of B*v^2 = u^3 + A*u^2 + u in affine coordinates, or the point at infinity
MontInfinity == [tag |-> "Infinity", u |-> 0, v |-> 0]

MontAffine(u, v) == [tag |-> "Affine", u |-> u, v |-> v]

\* u^3 + A*u^2 + u
MontRhs(u) == fe_add(fe_add(fe_mul(u, fe_mul(u, u)), fe_mul(MONT_A, fe_mul(u, u))), u)

\* B = 1 when u is the coordinate of a point of the curve, a non-residue (the
\* quadratic twist) otherwise
MontB(u) == IF fe_legendre(MontRhs(u)) = 0 - 1 THEN sqrt_nonresidue(2) ELSE 1

\* a point with the coordinate u
MontLift(u) ==
    MontAffine(u, CHOOSE v \in Canonical : fe_mul(MontB(u), fe_mul(v, v)) = MontRhs(u))

\* the chord-and-tangent sum on B*v^2 = u^3 + A*u^2 + u
MontSum(b, p, q) ==
    IF p.tag = "Infinity" THEN q
    ELSE IF q.tag = "Infinity" THEN p
    ELSE IF p.u = q.u /\ fe_add(p.v, q.v) = 0 THEN MontInfinity
    ELSE LET lam == IF p.u = q.u
                    THEN fe_mul(fe_add(fe_add(fe_mul(fe_new(3), fe_mul(p.u, p.u)),
                                              fe_mul(fe_new(2), fe_mul(MONT_A, p.u))), 1),
                                fe_inv(fe_mul(fe_new(2), fe_mul(b, p.v))))
                    ELSE fe_mul(fe_sub(q.v, p.v), fe_inv(fe_sub(q.u, p.u)))
             u3 == fe_sub(fe_sub(fe_sub(fe_mul(b, fe_mul(lam, lam)), MONT_A), p.u), q.u)
             v3 == fe_sub(fe_mul(lam, fe_sub(p.u, u3)), p.v)
         IN  MontAffine(u3, v3)

\* n*P for the point P with the coordinate u, n up to one past the largest scalar
RECURSIVE MontMultiple(_, _, _)
MontMultiple(b, pt, n) ==
    IF n = 0 THEN MontInfinity
    ELSE LET h == MontMultiple(b, pt, n \div 2)
             d == MontSum(b, h, h)
         IN  IF n % 2 = 1 THEN MontSum(b, d, pt) ELSE d

MontMultiples ==
    [u \in Canonical |->
        [n \in 0..(MaxK + 1) |-> MontMultiple(MontB(u), MontLift(u), n)]]

\* (X : Z) is a projective representative of the point r
Represents(pp, r) ==
    IF r.tag = "Infinity"
    THEN fe_is_zero(pp.z) /\ ~fe_is_zero(pp.x)
    ELSE ~fe_is_zero(pp.z) /\ fe_mul(pp.x, fe_inv(pp.z)) = r.u

\* the value of the bits of k that the ladder has processed
LadderPrefix == mont.k \div (2 ^ (bits(mont.k) - mont.j))

\* p0 and p1 represent n*P and (n + 1)*P for the prefix n processed so far
LadderRepresentatives ==
    pc \in {"ladder_loop", "ladder_done"} =>
        /\ Represents(mont.p0, MontMultiples[mont.base][LadderPrefix])
        /\ Represents(mont.p1, MontMultiples[mont.base][LadderPrefix + 1])

\* the ladder has run bitlen(k) iterations, most significant bit first, when it
\* returns, and the result is X/Z of p0, or 0 when Z = 0 (so 0 for k = 0, without
\* any iteration)
LadderResult ==
    /\ pc \in {"ladder_loop", "ladder_done"} => mont.j <= bits(mont.k)
    /\ pc = "ladder_done" =>
          /\ mont.j = bits(mont.k)
          /\ LadderPrefix = mont.k
          /\ mont.u_ladder = IF mont.p0.z = 0 THEN 0
                              ELSE fe_mul(mont.p0.x, fe_inv(mont.p0.z))
          /\ mont.u_ladder = montgomery_ladder(mont.base, mont.k)
          /\ mont.k = 0 => (mont.j = 0 /\ mont.u_ladder = 0)

TwoAnswers == pc = "committed" /\ Len(answers) >= 2

\* (s1 - s2) * (e1 - e2)^(-1) mod L, from the first two recorded answers
RecoveredKey ==
    LET e1 == mod_l(answers[1].e)
        e2 == mod_l(answers[2].e)
    IN  mod_l(sub_mod_l(answers[1].s, answers[2].s) * modpow(sub_mod_l(e1, e2), L - 2, L))

\* C22: when one signer (one k) has answered e1 and e2 with e1 # e2 mod L, the
\* secret key equals (s1 - s2) * (e1 - e2)^(-1) mod L, computed from the two
\* challenges and the two answers alone
C22_NonceReuseRevealsKey ==
    (TwoAnswers /\ mod_l(answers[1].e) # mod_l(answers[2].e)) => RecoveredKey = signer.sk

\* C22 witness: two answers to challenges that differ mod L, one of them not
\* reduced, s1 < s2, and the key recovered is the signer's key, which is not 1
C22_Witness ==
    /\ TwoAnswers /\ mod_l(answers[1].e) # mod_l(answers[2].e)
    /\ answers[1].e > L /\ answers[1].s < answers[2].s
    /\ signer.sk > 1 /\ signer.sk = sk /\ RecoveredKey = sk

\* C23: EdwardsPoint == (the derived PartialEq) agrees with group equality on the
\* results of the operations: k*P == (k mod L)*P for every point P of order L
\* and every k, so L*G == 0*G, and P + (-P) == 0*P
C23_NeutralComparesConsistently == pc = "compared" => grp.lhs = grp.rhs

\* verify_partially_blind_signature has been called on the signature of the run
\* with another pair (msg', info')
VerifiedOtherPair ==
    /\ pc = "verified" /\ vin.fn = "verify_partial"
    /\ vin.pk = pk /\ vin.sig.r = sig.r /\ vin.sig.s = sig.s
    /\ <<vin.msg, vin.sig.info>> # <<msg, sig.info>>

\* C24: the byte string hash_points_message_and_info hashes is different for
\* different (points, msg, info), so (the hash collision-free) a partially-blind
\* signature made for (msg, info) is rejected under every other pair
\* (msg', info'), one made by moving bytes from msg to info included
C24_HashInputDeterminesFields ==
    (VerifiedOtherPair /\ CollisionFree(digest)) =>
        /\ hash_input_info(<<sig.r, pk>>, vin.msg, vin.sig.info)
               # hash_input_info(<<sig.r, pk>>, msg, sig.info)
        /\ ~vres

=============================================================================
